---- MODULE Spec2Model ----
(***************************************************************************)
(* Device connectivity lifecycle of the PoetryCamera bundle: the WiFi set- *)
(* up page (index / configure_wifi), write_wifi_config.sh, reset_ap_mode.sh*)
(* and the start of startup.sh, as a state machine over the profile files  *)
(* of NetworkManager, NetworkManager's loaded profiles and active          *)
(* connection, and the four systemd units the scripts start and stop.      *)
(***************************************************************************)
EXTENDS Integers, Sequences, FiniteSets, TLC

\* ------------------------------------------------------------------ bounds
\* passwords a client may type are 1..NumPasswords; 1 is the right one
NumPasswords == 2

Passwords == 1..NumPasswords

\* SSIDs a client may submit, as sequences of characters
Ssids == { <<"a", " ">>, <<"a", "_">>, <<"c">> }

\* no connection: the empty name
NoConn == <<>>
NoReq == [ssid |-> <<>>, password |-> 0, autoconnect |-> FALSE,
          alreadyActive |-> FALSE]

Units == {"dhcpcd", "wpa_supplicant", "hostapd", "dnsmasq"}

VARIABLES
    store,      \* files under /etc/NetworkManager/system-connections
    nmLoaded,   \* profiles NetworkManager has loaded from those files
    active,     \* id of the active NetworkManager connection, or NoConn
    svc,        \* unit name -> running?
    bootPc,     \* position of startup.sh
    ccPc,       \* position of the background connection check
    wifiPc,     \* position of the index POST / write_wifi_config.sh run
    apPc,       \* next line of a running reset_ap_mode.sh, or "idle"
    req,        \* the connect request being handled
    result,     \* outcome of write_wifi_config.sh: "none", "ok", "fail"
    forgot,     \* history: did the last forget since boot name the active
                \* connection ("active"), another stored name ("other"),
                \* a name not stored ("absent"), or was there none ("none")
    scanPc      \* a GET of the setup page: "idle", or "iwlist" while
                \* scan_wifi runs its radio scan

\* the system page (system.js), the update and reboot handlers it calls and
\* the tail of the setup page's POST
VARIABLES
    dev,        \* the device: "up" or "down" (restarting)
    threadPc,   \* api_reboot's oldest do_reboot thread: "none", "started"
                \* (its request not answered yet), "sleeping" (answered)
    setupPc,    \* index() POST after configure_wifi: "idle", "reboot",
                \* "respond"
    lastRestart,\* history: who issued the last restart, and whether the
                \* response to that request had been sent by then
    page,       \* what the browser shows: "system", "rebooting", "timeout"
    modal,      \* the open modal: "none", "update", "reboot"
    disabled,   \* the buttons setButtonLoading has disabled
    ui,         \* update card: status text, commit list, apply button
    checkPc,    \* checkForUpdates: "idle", "sent", "ok", "fail", "throw"
    checkResp,  \* commits_behind of the response being handled
    checkPre,   \* history: ui as it was when the running check began
    applyPc,    \* invoker -> "idle", "sent", "running", "ok", "fail",
                \* "busy", "throw"
    rebootPc,   \* rebootDevice: "idle", "sent", "handling", "ok", "throw"
    reconnectAttempts,
    timer,      \* delay in ms of the pending setTimeout(attemptReconnect,
                \* ...), or NoTimer
    remote,     \* commits pushed to the remote source so far
    upd,        \* UpdateState.commitsBehind, or Unknown
    applyOrphan, \* the page that sent the apply request of "page" has been
                \* reloaded since: nothing waits for the response
    applying,   \* invokers whose apply the orchestrator is running
    stage,      \* the fetched revision: "none", "partial", "good", "bad"
    inst        \* installed revision: number, and whether it starts

netVars == <<store, nmLoaded, active, svc, bootPc, ccPc, wifiPc, apPc, req,
             result, forgot, scanPc>>

sysVars == <<dev, threadPc, setupPc, lastRestart, page, modal, disabled, ui,
             checkPc, checkResp, checkPre, applyPc, rebootPc,
             reconnectAttempts, timer, remote, upd, applying, stage, inst,
             applyOrphan>>

\* histories of the network side and of the system page
VARIABLES
    stepFailed,   \* a command of the running write_wifi_config.sh failed
    lastScan,     \* the last scan_wifi: did iwlist fail, what was returned
    appliedSince  \* the page saw an apply succeed since its last check began

netHist == <<stepFailed, lastScan>>

sysHist == <<appliedSince>>

\* a run of startup.sh
VARIABLES
    stPc,       \* the command startup.sh is at: "off", "cd", "venv",
                \* "netcheck", "web", "key", "libcamera", "printer", "main",
                \* "done", "exit1"
    stIn,       \* what the run finds: cd and the virtualenv work or not,
                \* the lines of .env, libcamera imports or not
    launched    \* the programs the run has started, in order

startVars == <<stPc, stIn, launched>>

\* the WiFi page of the dashboard and the profiles its requests act on
VARIABLES
    selectedSSID,   \* wifi.js: let selectedSSID
    wmodal,         \* the modal that is active: "connect-modal",
                    \* "forget-modal" or "none"
    modalSsid,      \* the text of #modal-ssid and of #forget-ssid
    wdisabled,      \* the buttons of the page that are disabled
    wreq,           \* button -> its requests in flight, oldest first
    notification,   \* what showNotification showed last
    available,      \* the SSIDs in the rows of #available-networks
    savedRows,      \* the rows of #saved-networks
    loads,          \* requests for /api/wifi/networks in flight
    profiles        \* the saved profiles: name, secret, autoconnect

wifiVars == <<selectedSSID, wmodal, modalSsid, wdisabled, wreq,
              notification, available, savedRows, loads, profiles>>

notNetVars == <<sysVars, sysHist, startVars, wifiVars>>

notSysVars == <<netVars, netHist, startVars, wifiVars>>

notStartVars == <<netVars, netHist, sysVars, sysHist, wifiVars>>

\* what the WiFi page leaves alone, but for the page shown
notWifiVars == <<netVars, netHist, sysHist, startVars>>

vars == <<netVars, netHist, sysVars, sysHist, startVars, wifiVars>>

\* ------------------------------------------------------- pure functions

\* ssid.replace(' ', '_')
connection_name(ssid) ==
    [i \in DOMAIN ssid |-> IF ssid[i] = " " THEN "_" ELSE ssid[i]]

ConnNames == { connection_name(s) : s \in Ssids }

\* the keyfile text configure_wifi builds; id, ssid and psk are the fields
\* that depend on the arguments (the uuid is fresh and plays no part in
\* the path), autoconnect is always true
configure_wifi(ssid, password) ==
    [id |-> connection_name(ssid), ssid |-> ssid, psk |-> password,
     autoconnect |-> TRUE]

\* the passphrase the network with this SSID really has
CorrectPsk(ssid) == CHOOSE p \in Passwords : \A q \in Passwords : p <= q

FilesAtAny(st, name) == st

\* the file at the path of this connection name, if there is one
FilesAt(st, name) == { f \in st : f.id = name }

WriteFileDup(st, cfg) ==
    st \cup { [id |-> cfg.id, ssid |-> cfg.ssid,
               psk |-> cfg.psk, autoconnect |-> cfg.autoconnect,
               perms |-> 644] }

\* echo "$config" | sudo tee $config_path: the file at the path of cfg.id
\* is truncated and rewritten; an existing file keeps its permissions
WriteFile(st, cfg) ==
    LET old == FilesAt(st, cfg.id)
        p == IF \E f \in old : f.perms = 600 THEN 600 ELSE 644
    IN (st \ old) \cup
         { [id |-> cfg.id, ssid |-> cfg.ssid,
            psk |-> cfg.psk, autoconnect |-> cfg.autoconnect,
            perms |-> p] }

\* sudo chmod 600 $config_path
Chmod600(st, name) ==
    { IF f.id = name THEN [f EXCEPT !.perms = 600] ELSE f : f \in st }

\* nmcli connection reload: NetworkManager re-reads the keyfiles; it
\* ignores files that are not private to root
NmReload(st) == { f \in st : f.perms = 600 }

NmcliUpOkAny(loaded, name, timeout) == ~timeout

\* nmcli connection up $connection_name: succeeds when NetworkManager
\* knows a profile of that id, the access point accepts its psk and the
\* activation does not time out
NmcliUpOk(loaded, name, timeout) ==
    /\ ~timeout
    /\ \E f \in loaded : f.id = name /\ f.psk = CorrectPsk(f.ssid)

\* the state of the units after boot: station services, no access point
BootSvc ==
    [u \in Units |-> u \in {"dhcpcd", "wpa_supplicant"}]

ResetLineNoHostapd(pc) ==
    CASE pc = "stop_dhcpcd"   -> [unit |-> "dhcpcd", run |-> FALSE,
                                  next |-> "stop_wpa"]
      [] pc = "stop_wpa"      -> [unit |-> "wpa_supplicant", run |-> FALSE,
                                  next |-> "start_hostapd"]
      [] pc = "start_hostapd" -> [unit |-> "hostapd", run |-> FALSE,
                                  next |-> "start_dnsmasq"]
      [] pc = "start_dnsmasq" -> [unit |-> "dnsmasq", run |-> TRUE,
                                  next |-> "idle"]

ResetLineNoDnsmasq(pc) ==
    CASE pc = "stop_dhcpcd"   -> [unit |-> "dhcpcd", run |-> FALSE,
                                  next |-> "stop_wpa"]
      [] pc = "stop_wpa"      -> [unit |-> "wpa_supplicant", run |-> FALSE,
                                  next |-> "start_hostapd"]
      [] pc = "start_hostapd" -> [unit |-> "hostapd", run |-> TRUE,
                                  next |-> "start_dnsmasq"]
      [] pc = "start_dnsmasq" -> [unit |-> "dnsmasq", run |-> FALSE,
                                  next |-> "idle"]

ResetLineStartFirst(pc) ==
    CASE pc = "stop_dhcpcd"   -> [unit |-> "hostapd", run |-> TRUE,
                                  next |-> "stop_wpa"]
      [] pc = "stop_wpa"      -> [unit |-> "wpa_supplicant", run |-> FALSE,
                                  next |-> "start_hostapd"]
      [] pc = "start_hostapd" -> [unit |-> "dhcpcd", run |-> FALSE,
                                  next |-> "start_dnsmasq"]
      [] pc = "start_dnsmasq" -> [unit |-> "dnsmasq", run |-> TRUE,
                                  next |-> "idle"]

\* reset_ap_mode.sh, line by line: the unit each systemctl call acts on,
\* whether it starts or stops it, and the line that follows
ResetLine(pc) ==
    CASE pc = "stop_dhcpcd"   -> [unit |-> "dhcpcd", run |-> FALSE,
                                  next |-> "stop_wpa"]
      [] pc = "stop_wpa"      -> [unit |-> "wpa_supplicant", run |-> FALSE,
                                  next |-> "start_hostapd"]
      [] pc = "start_hostapd" -> [unit |-> "hostapd", run |-> TRUE,
                                  next |-> "start_dnsmasq"]
      [] pc = "start_dnsmasq" -> [unit |-> "dnsmasq", run |-> TRUE,
                                  next |-> "idle"]

\* sudo systemctl start|stop <unit>
Systemctl(s, line) == [s EXCEPT ![line.unit] = line.run]

RECURSIVE RunResetFrom(_, _)
RunResetFrom(s, pc) ==
    IF pc = "idle" THEN s
    ELSE RunResetFrom(Systemctl(s, ResetLine(pc)), ResetLine(pc).next)

\* a whole run of reset_ap_mode.sh
reset_ap_mode(s) == RunResetFrom(s, "stop_dhcpcd")

\* stopping wpa_supplicant drops the WiFi association
ActiveAfter(a, line) ==
    IF line.unit = "wpa_supplicant" /\ ~line.run THEN NoConn ELSE a

\* --------------------------------------------------------- device mode
ApRole == svc["hostapd"] \/ svc["dnsmasq"]
StaRole == svc["dhcpcd"] \/ svc["wpa_supplicant"] \/ active # NoConn
ApActive == svc["hostapd"] /\ svc["dnsmasq"]
StaServicesStopped == ~svc["dhcpcd"] /\ ~svc["wpa_supplicant"]

Mode ==
    IF ApActive /\ StaServicesStopped THEN "AccessPoint.Active"
    ELSE IF active # NoConn /\ ~ApRole THEN "Station.Connected"
    ELSE IF active = NoConn /\ ~ApRole /\ ~StaServicesStopped
         THEN "Station.Disconnected"
    ELSE "Switching"

\* ------------------------------------------------------------------ Init
Unknown == "unknown"
Invokers == {"page", "other"}
FreshUi == [status |-> "initial", commitsShown |-> FALSE,
            applyShown |-> FALSE, commits |-> 0]
NoRestart == [by |-> "none", responded |-> FALSE]
NoTimer == 0

\* the system page as loaded, nothing requested, the device running a
\* revision that starts
SysInit ==
    /\ dev = "up"
    /\ threadPc = "none"
    /\ setupPc = "idle"
    /\ lastRestart = NoRestart
    /\ page = "system"
    /\ modal = "none"
    /\ disabled = {}
    /\ ui = FreshUi
    /\ checkPc = "idle"
    /\ checkResp = 0
    /\ checkPre = FreshUi
    /\ applyPc = [i \in Invokers |-> "idle"]
    /\ applyOrphan = FALSE
    /\ rebootPc = "idle"
    /\ reconnectAttempts = 0
    /\ timer = NoTimer
    /\ remote = 0
    /\ upd = Unknown
    /\ applying = {}
    /\ stage = "none"
    /\ inst = [rev |-> 0, ok |-> TRUE]

NoScan == [failed |-> FALSE, networks |-> <<>>]

\* no .env file
NoEnvFile == [exists |-> FALSE, lines |-> {}]
NoRun == [cdOk |-> FALSE, venvOk |-> FALSE, env |-> NoEnvFile,
          libcamera |-> FALSE]

\* no SSID: null, the empty text
NoSsid == ""
WifiButtons == {"btn-scan", "btn-add-network", "btn-modal-connect",
                "btn-confirm-forget"}
NoNotification == [text |-> "none", ssid |-> NoSsid]

\* the WiFi page not loaded
WifiInit ==
    /\ selectedSSID = NoSsid
    /\ wmodal = "none"
    /\ modalSsid = [m \in {"connect-modal", "forget-modal"} |-> NoSsid]
    /\ wdisabled = {}
    /\ wreq = [b \in WifiButtons |-> <<>>]
    /\ notification = NoNotification
    /\ available = {}
    /\ savedRows = {}
    /\ loads = 0

Init ==
    /\ WifiInit
    /\ profiles = {}
    /\ stPc = "off"
    /\ stIn = NoRun
    /\ launched = <<>>
    /\ stepFailed = FALSE
    /\ lastScan = NoScan
    /\ appliedSince = FALSE
    /\ store = {}
    /\ nmLoaded = {}
    /\ active = NoConn
    /\ svc = BootSvc
    /\ bootPc = "netcheck"
    /\ ccPc = "off"
    /\ wifiPc = "idle"
    /\ apPc = "idle"
    /\ req = NoReq
    /\ result = "none"
    /\ forgot = "none"
    /\ scanPc = "idle"
    /\ SysInit

\* --------------------------------------------------------------- startup

\* startup.sh: python3 .../connection_check.py ... &
StartNetworkCheck ==
    /\ bootPc = "netcheck"
    /\ bootPc' = "web"
    /\ ccPc' = "running"
    /\ UNCHANGED <<store, nmLoaded, active, svc,
                   wifiPc, apPc, req, result, forgot, scanPc>>
    /\ UNCHANGED netHist
    /\ UNCHANGED notNetVars

\* startup.sh: python3 -m gunicorn ... web_interface.app:app &
StartWebInterface ==
    /\ bootPc = "web"
    /\ bootPc' = "done"
    /\ UNCHANGED <<store, nmLoaded, active, svc, ccPc,
                   wifiPc, apPc, req, result, forgot, scanPc>>
    /\ UNCHANGED netHist
    /\ UNCHANGED notNetVars

\* NetworkManager brings up a loaded autoconnect=true profile at boot
NMAutoConnect ==
    /\ bootPc = "netcheck"
    /\ active = NoConn
    /\ \E f \in nmLoaded :
          /\ f.autoconnect
          /\ NmcliUpOk(nmLoaded, f.id, FALSE)
          /\ active' = f.id
    /\ UNCHANGED <<store, nmLoaded, svc, bootPc, ccPc,
                   wifiPc, apPc, req, result, forgot, scanPc>>
    /\ UNCHANGED netHist
    /\ UNCHANGED notNetVars

\* connection_check.py: probe the current connection; with none, enter
\* access-point mode
ConnectionCheck ==
    /\ ccPc = "running"
    /\ ccPc' = "done"
    /\ IF active = NoConn
       THEN svc' = reset_ap_mode(svc)
       ELSE svc' = svc
    /\ UNCHANGED <<store, nmLoaded, active, bootPc,
                   wifiPc, apPc, req, result, forgot, scanPc>>
    /\ UNCHANGED netHist
    /\ UNCHANGED notNetVars

\* ---------------------------------------------------------------- connect

\* history: the request names the active connection and the loaded profile
\* of that name already has this ssid and password
AlreadyActive(ssid, password) ==
    /\ active = connection_name(ssid)
    /\ \E f \in nmLoaded : /\ f.id = active
                           /\ f.ssid = ssid
                           /\ f.psk = password

\* index(), POST: the form's ssid and password go to configure_wifi, which
\* starts write_wifi_config.sh
IndexPost(ssid, password, autoconnect) ==
    /\ wifiPc = "idle"
    /\ wifiPc' = "tee"
    /\ req' = [ssid |-> ssid, password |-> password,
               autoconnect |-> autoconnect,
               alreadyActive |-> AlreadyActive(ssid, password)]
    /\ result' = "none"
    /\ stepFailed' = FALSE
    /\ UNCHANGED <<store, nmLoaded, active, svc,
                   bootPc, ccPc, apPc, forgot, scanPc, lastScan>>
    /\ UNCHANGED notNetVars

\* write_wifi_config.sh line 11
TeeConfig ==
    /\ wifiPc = "tee"
    /\ store' = WriteFile(store, configure_wifi(req.ssid, req.password))
    /\ wifiPc' = "chmod"
    /\ UNCHANGED <<nmLoaded, active, svc, bootPc,
                   ccPc, apPc, req, result, forgot, scanPc>>
    /\ UNCHANGED netHist
    /\ UNCHANGED notNetVars

\* write_wifi_config.sh line 11 when tee cannot open the file (read-only
\* or full file system): nothing is written, and the script goes on, as
\* it has no set -e
TeeFails ==
    /\ wifiPc = "tee"
    /\ wifiPc' = "chmod"
    /\ stepFailed' = TRUE
    /\ UNCHANGED <<store, nmLoaded, active, svc, bootPc,
                   ccPc, apPc, req, result, forgot, scanPc, lastScan>>
    /\ UNCHANGED notNetVars

\* write_wifi_config.sh line 14; chmod fails when there is no file
ChmodConfig ==
    /\ wifiPc = "chmod"
    /\ store' = Chmod600(store, connection_name(req.ssid))
    /\ wifiPc' = "reload"
    /\ stepFailed' = (stepFailed
                        \/ FilesAt(store, connection_name(req.ssid)) = {})
    /\ UNCHANGED <<nmLoaded, active, svc, bootPc,
                   ccPc, apPc, req, result, forgot, scanPc, lastScan>>
    /\ UNCHANGED notNetVars

\* write_wifi_config.sh line 17
NmcliReload ==
    /\ wifiPc = "reload"
    /\ nmLoaded' = NmReload(store)
    /\ wifiPc' = "up"
    /\ UNCHANGED <<store, active, svc, bootPc,
                   ccPc, apPc, req, result, forgot, scanPc>>
    /\ UNCHANGED netHist
    /\ UNCHANGED notNetVars

\* write_wifi_config.sh line 17 when nmcli cannot reload: NetworkManager
\* keeps the profiles it had loaded
NmcliReloadFails ==
    /\ wifiPc = "reload"
    /\ wifiPc' = "up"
    /\ stepFailed' = TRUE
    /\ UNCHANGED <<store, nmLoaded, active, svc, bootPc,
                   ccPc, apPc, req, result, forgot, scanPc, lastScan>>
    /\ UNCHANGED notNetVars

\* write_wifi_config.sh line 18; its exit status is the script's
NmcliUp ==
    /\ wifiPc = "up"
    /\ \E timeout \in BOOLEAN :
          IF NmcliUpOk(nmLoaded, connection_name(req.ssid), timeout)
          THEN /\ active' = connection_name(req.ssid)
               /\ result' = "ok"
          ELSE /\ active' = active
               /\ result' = "fail"
    /\ wifiPc' = "ret"
    /\ UNCHANGED <<store, nmLoaded, svc, bootPc,
                   ccPc, apPc, req, forgot, scanPc>>
    /\ UNCHANGED netHist
    /\ UNCHANGED notNetVars

IndexReturnFallback ==
    /\ wifiPc = "ret"
    /\ IF result = "ok"
       THEN /\ svc' = BootSvc
            /\ active' = NoConn
            /\ nmLoaded' = NmReload(store)
            /\ bootPc' = "netcheck"
            /\ ccPc' = "off"
            /\ apPc' = "idle"
            /\ forgot' = "none"
            /\ scanPc' = "idle"
       ELSE /\ svc' = reset_ap_mode(svc)
            /\ UNCHANGED <<active, nmLoaded, bootPc, ccPc, apPc, forgot,
                           scanPc>>
    /\ wifiPc' = "idle"
    /\ req' = NoReq
    /\ result' = "none"
    /\ stepFailed' = FALSE
    /\ UNCHANGED <<store, lastScan>>
    /\ UNCHANGED notNetVars

\* configure_wifi returns (returncode == 0) to index(): on True it flashes
\* success and calls reboot_system(); on False it flashes the failure
IndexReturn ==
    /\ wifiPc = "ret"
    /\ IF result = "ok"
       THEN /\ svc' = BootSvc
            /\ active' = NoConn
            /\ nmLoaded' = NmReload(store)
            /\ bootPc' = "netcheck"
            /\ ccPc' = "off"
            /\ apPc' = "idle"
            /\ forgot' = "none"
            /\ scanPc' = "idle"
       ELSE UNCHANGED <<svc, active, nmLoaded, bootPc, ccPc, apPc, forgot,
                        scanPc>>
    /\ wifiPc' = "idle"
    /\ req' = NoReq
    /\ result' = "none"
    /\ stepFailed' = FALSE
    /\ UNCHANGED <<store, lastScan>>
    /\ UNCHANGED notNetVars

\* the device loses power while write_wifi_config.sh runs, and starts again
\* with the files as they were at that moment
PowerLoss ==
    /\ wifiPc \in {"tee", "chmod", "reload", "up"}
    /\ svc' = BootSvc
    /\ active' = NoConn
    /\ nmLoaded' = NmReload(store)
    /\ bootPc' = "netcheck"
    /\ ccPc' = "off"
    /\ apPc' = "idle"
    /\ forgot' = "none"
    /\ scanPc' = "idle"
    /\ wifiPc' = "idle"
    /\ req' = NoReq
    /\ result' = "none"
    /\ stepFailed' = FALSE
    /\ UNCHANGED <<store, lastScan>>
    /\ UNCHANGED notNetVars

\* ------------------------------------------------------------------- scan

\* index(), GET: scan_wifi() runs `sudo iwlist wlan0 scan`; nothing in
\* index or scan_wifi looks at a connect that is being handled
IndexGet ==
    /\ scanPc = "idle"
    /\ scanPc' = "iwlist"
    /\ UNCHANGED <<store, nmLoaded, active, svc, bootPc, ccPc, wifiPc, apPc,
                   req, result, forgot>>
    /\ UNCHANGED netHist
    /\ UNCHANGED notNetVars

\* what subprocess.run of iwlist can give scan_wifi: an exception, or an
\* exit status with the ESSIDs of the cells on stdout (none when iwlist
\* failed)
MaxCells == 2

ScanNames == {"x", "y"}

IwlistResults ==
    { [raised |-> TRUE, returncode |-> 1, essids |-> <<>>],
      [raised |-> FALSE, returncode |-> 1, essids |-> <<>>] }
    \cup { [raised |-> FALSE, returncode |-> 0, essids |-> e] :
             e \in UNION { [1..n -> ScanNames] : n \in 0..MaxCells } }

\* scan_wifi's loop: every ESSID once, in the order of first appearance
RECURSIVE Networks(_)
Networks(essids) ==
    IF essids = <<>> THEN <<>>
    ELSE LET front == Networks(SubSeq(essids, 1, Len(essids) - 1))
             essid == essids[Len(essids)]
         IN IF \E i \in DOMAIN front : front[i] = essid
            THEN front
            ELSE Append(front, essid)

\* scan_wifi: the exception is logged and the empty list returned; the
\* exit status is not looked at
scan_wifi(res) == IF res.raised THEN <<>> ELSE Networks(res.essids)

\* the scan ends and index() renders the page with the list
ScanWifiDone(res) ==
    /\ scanPc = "iwlist"
    /\ scanPc' = "idle"
    /\ lastScan' = [failed |-> res.raised \/ res.returncode # 0,
                    networks |-> scan_wifi(res)]
    /\ UNCHANGED <<store, nmLoaded, active, svc, bootPc, ccPc, wifiPc, apPc,
                   req, result, forgot, stepFailed>>
    /\ UNCHANGED notNetVars

\* ----------------------------------------------------------------- forget

\* /api/wifi/forget: remove the profile; when it is the active connection,
\* deactivate it and enter access-point mode
Forget(name) ==
    /\ store' = store \ FilesAt(store, name)
    /\ nmLoaded' = nmLoaded \ FilesAt(nmLoaded, name)
    /\ IF active = name
       THEN /\ active' = NoConn
            /\ svc' = reset_ap_mode(svc)
       ELSE UNCHANGED <<active, svc>>
    /\ forgot' = IF active = name THEN "active"
                 ELSE IF FilesAt(store, name) = {} THEN "absent"
                 ELSE "other"
    /\ UNCHANGED <<bootPc, ccPc, wifiPc, apPc, req, result, scanPc>>
    /\ UNCHANGED netHist
    /\ UNCHANGED notNetVars

\* ---------------------------------------------------------- reset_ap_mode

\* the 5-second button press starts reset_ap_mode.sh
TriggerApFallback ==
    /\ apPc = "idle"
    /\ apPc' = "stop_dhcpcd"
    /\ UNCHANGED <<store, nmLoaded, active, svc, bootPc,
                   ccPc, wifiPc, req, result, forgot, scanPc>>
    /\ UNCHANGED netHist
    /\ UNCHANGED notNetVars

\* one systemctl line of reset_ap_mode.sh
ResetApModeStep ==
    /\ apPc # "idle"
    /\ svc' = Systemctl(svc, ResetLine(apPc))
    /\ active' = ActiveAfter(active, ResetLine(apPc))
    /\ apPc' = ResetLine(apPc).next
    /\ UNCHANGED <<store, nmLoaded, bootPc, ccPc,
                   wifiPc, req, result, forgot, scanPc>>
    /\ UNCHANGED netHist
    /\ UNCHANGED notNetVars

\* -------------------------------------------------------------------- Next
Next ==
    \/ StartNetworkCheck
    \/ StartWebInterface
    \/ NMAutoConnect
    \/ ConnectionCheck
    \/ \E s \in Ssids, p \in Passwords, a \in BOOLEAN : IndexPost(s, p, a)
    \/ TeeConfig
    \/ ChmodConfig
    \/ NmcliReload
    \/ NmcliUp
    \/ IndexReturn
    \/ \E n \in ConnNames : Forget(n)
    \/ TriggerApFallback
    \/ ResetApModeStep

Spec == Init /\ [][Next]_vars

\* the setup page alone: its GET (scan) and its POST (connect) handlers,
\* which Flask serves on separate threads
NextScan ==
    \/ IndexGet
    \/ \E res \in IwlistResults : ScanWifiDone(res)
    \/ \E s \in Ssids, p \in Passwords, a \in BOOLEAN : IndexPost(s, p, a)
    \/ TeeConfig
    \/ ChmodConfig
    \/ NmcliReload
    \/ NmcliUp
    \/ IndexReturn

SpecScan == Init /\ [][NextScan]_vars

\* write_wifi_config.sh with commands that fail and with loss of power
NextScript ==
    \/ \E s \in Ssids, p \in Passwords, a \in BOOLEAN : IndexPost(s, p, a)
    \/ TeeConfig
    \/ TeeFails
    \/ ChmodConfig
    \/ NmcliReload
    \/ NmcliReloadFails
    \/ NmcliUp
    \/ IndexReturn
    \/ PowerLoss

SpecScript == Init /\ [][NextScript]_vars

\* ------------------------------------------------- system management
\* system.js (the system page), the /api/reboot handler, the tail of the
\* setup page's index(), and the update handlers.

maxReconnectAttempts == 20

\* setTimeout(attemptReconnect, 15000) and setTimeout(attemptReconnect, 3000)
firstReconnectDelay == 15000

reconnectDelay == 3000

MaxCommits == 1

SetButtonLoadingNoDisable(d, button, loading) == d \ {button}

\* main.js setButtonLoading
SetButtonLoading(d, button, loading) ==
    IF loading THEN d \cup {button} ELSE d \ {button}

\* a request being handled when the device restarts never gets its answer
Killed(pc) == IF pc \in {"handling", "running"} THEN "throw" ELSE pc

\* sudo reboot: the device goes down; the processes and what they held in
\* memory are gone, the installed revision stays
Restart(by, responded) ==
    /\ dev' = "down"
    /\ threadPc' = "none"
    /\ lastRestart' = [by |-> by, responded |-> responded]
    /\ rebootPc' = Killed(rebootPc)
    /\ applyPc' = [i \in Invokers |-> Killed(applyPc[i])]
    /\ applying' = {}
    /\ stage' = "none"
    /\ upd' = Unknown

\* window.location.reload(): the page and its script start afresh
Reload ==
    /\ page' = "system"
    /\ modal' = "none"
    /\ disabled' = {}
    /\ ui' = FreshUi
    /\ checkPc' = "idle"
    /\ checkResp' = 0
    /\ checkPre' = FreshUi
    /\ reconnectAttempts' = 0
    /\ timer' = NoTimer
    /\ appliedSince' = FALSE
    /\ applyOrphan' = (applyOrphan \/ applyPc["page"] # "idle")

\* click on btn-reboot, or on "Reboot Now" after an apply
OpenRebootModal ==
    /\ page = "system"
    /\ modal = "none"
    /\ modal' = "reboot"
    /\ UNCHANGED <<dev, threadPc, setupPc, lastRestart, page, disabled, ui,
                   checkPc, checkResp, checkPre, applyPc, rebootPc,
                   reconnectAttempts, timer, remote, upd, applying, stage,
                   inst>>
    /\ UNCHANGED sysHist
    /\ UNCHANGED applyOrphan
    /\ UNCHANGED notSysVars

\* main.js: a click on the modal's background, its close button or its
\* cancel button, or the Escape key, closes the modal
CancelModal ==
    /\ page = "system"
    /\ modal # "none"
    /\ modal' = "none"
    /\ UNCHANGED <<dev, threadPc, setupPc, lastRestart, page, disabled, ui,
                   checkPc, checkResp, checkPre, applyPc, rebootPc,
                   reconnectAttempts, timer, remote, upd, applying, stage,
                   inst>>
    /\ UNCHANGED sysHist
    /\ UNCHANGED applyOrphan
    /\ UNCHANGED notSysVars

\* rebootDevice up to the await: click on btn-confirm-reboot
RebootStart ==
    /\ page = "system"
    /\ modal = "reboot"
    /\ "btn-confirm-reboot" \notin disabled
    /\ rebootPc = "idle"
    /\ disabled' = SetButtonLoading(disabled, "btn-confirm-reboot", TRUE)
    /\ rebootPc' = "sent"
    /\ UNCHANGED <<dev, threadPc, setupPc, lastRestart, page, modal, ui,
                   checkPc, checkResp, checkPre, applyPc,
                   reconnectAttempts, timer, remote, upd, applying, stage,
                   inst>>
    /\ UNCHANGED sysHist
    /\ UNCHANGED applyOrphan
    /\ UNCHANGED notSysVars

\* api_reboot: threading.Thread(target=do_reboot).start(); a thread that
\* sleeps already is ahead of the new one. A request to a device that is
\* down fails in fetch.
ApiReboot ==
    /\ rebootPc = "sent"
    /\ IF dev = "up"
       THEN /\ threadPc' = IF threadPc = "none" THEN "started" ELSE threadPc
            /\ rebootPc' = "handling"
       ELSE /\ rebootPc' = "throw"
            /\ UNCHANGED threadPc
    /\ UNCHANGED <<dev, setupPc, lastRestart, page, modal, disabled, ui,
                   checkPc, checkResp, checkPre, applyPc,
                   reconnectAttempts, timer, remote, upd, applying, stage,
                   inst>>
    /\ UNCHANGED sysHist
    /\ UNCHANGED applyOrphan
    /\ UNCHANGED notSysVars

\* api_reboot: return jsonify(success=True)
ApiRebootReturn ==
    /\ rebootPc = "handling"
    /\ rebootPc' = "ok"
    /\ threadPc' = IF threadPc = "started" THEN "sleeping" ELSE threadPc
    /\ UNCHANGED <<dev, setupPc, lastRestart, page, modal,
                   disabled, ui, checkPc, checkResp, checkPre, applyPc,
                   reconnectAttempts, timer, remote, upd, applying, stage,
                   inst>>
    /\ UNCHANGED sysHist
    /\ UNCHANGED applyOrphan
    /\ UNCHANGED notSysVars

\* do_reboot: time.sleep(1); os.system('sudo reboot'). The handler returns
\* right after starting the thread, so the second of sleep is over only
\* after the response to the thread's request has gone out.
DoReboot ==
    /\ threadPc = "sleeping"
    /\ Restart("dashboard", threadPc = "sleeping")
    /\ setupPc' = IF setupPc = "reboot" THEN "idle" ELSE setupPc
    /\ UNCHANGED <<page, modal, disabled, ui, checkPc, checkResp,
                   checkPre, reconnectAttempts, timer, remote, inst>>
    /\ UNCHANGED sysHist
    /\ UNCHANGED applyOrphan
    /\ UNCHANGED notSysVars

\* rebootDevice after the await
RebootDone ==
    /\ rebootPc \in {"ok", "throw"}
    /\ IF rebootPc = "ok"
       THEN /\ modal' = "none"
            /\ page' = "rebooting"
            /\ timer' = firstReconnectDelay
       ELSE UNCHANGED <<modal, page, timer>>
    /\ disabled' = SetButtonLoading(disabled, "btn-confirm-reboot", FALSE)
    /\ rebootPc' = "idle"
    /\ UNCHANGED <<dev, threadPc, setupPc, lastRestart, ui, checkPc,
                   checkResp, checkPre, applyPc, reconnectAttempts, remote,
                   upd, applying, stage, inst>>
    /\ UNCHANGED sysHist
    /\ UNCHANGED applyOrphan
    /\ UNCHANGED notSysVars

\* the device starts again, running the installed revision
DeviceBoot ==
    /\ dev = "down"
    /\ inst.ok
    /\ dev' = "up"
    /\ UNCHANGED <<threadPc, setupPc, lastRestart, page, modal, disabled,
                   ui, checkPc, checkResp, checkPre, applyPc, rebootPc,
                   reconnectAttempts, timer, remote, upd, applying, stage,
                   inst>>
    /\ UNCHANGED sysHist
    /\ UNCHANGED applyOrphan
    /\ UNCHANGED notSysVars

AttemptReconnectNoReload ==
    /\ timer # NoTimer
    /\ threadPc = "none"
    /\ reconnectAttempts' = reconnectAttempts + 1
    /\ IF reconnectAttempts + 1 < maxReconnectAttempts
       THEN /\ timer' = reconnectDelay
            /\ page' = page
       ELSE /\ timer' = NoTimer
            /\ page' = "timeout"
    /\ UNCHANGED <<modal, disabled, ui, checkPc, checkResp, checkPre>>
    /\ UNCHANGED <<dev, threadPc, setupPc, lastRestart, applyPc, rebootPc,
                   remote, upd, applying, stage, inst>>
    /\ UNCHANGED sysHist
    /\ UNCHANGED applyOrphan
    /\ UNCHANGED notSysVars

AttemptReconnectNoLimit ==
    /\ timer # NoTimer
    /\ threadPc = "none"
    /\ IF dev = "up"
       THEN Reload
       ELSE /\ reconnectAttempts' = reconnectAttempts + 1
            /\ timer' = reconnectDelay
            /\ page' = page
            /\ UNCHANGED <<modal, disabled, ui, checkPc, checkResp,
                           checkPre, appliedSince, applyOrphan>>
    /\ UNCHANGED <<dev, threadPc, setupPc, lastRestart, applyPc, rebootPc,
                   remote, upd, applying, stage, inst>>
    /\ UNCHANGED notSysVars

\* attemptReconnect, run by the timer: the first run comes 15 s after the
\* response, long after do_reboot's second of sleep
AttemptReconnect ==
    /\ timer # NoTimer
    /\ threadPc = "none"
    /\ IF dev = "up"
       THEN Reload
       ELSE /\ reconnectAttempts' = reconnectAttempts + 1
            /\ IF reconnectAttempts + 1 < maxReconnectAttempts
               THEN /\ timer' = reconnectDelay
                    /\ page' = page
               ELSE /\ timer' = NoTimer
                    /\ page' = "timeout"
            /\ UNCHANGED <<modal, disabled, ui, checkPc, checkResp,
                           checkPre, appliedSince, applyOrphan>>
    /\ UNCHANGED <<dev, threadPc, setupPc, lastRestart, applyPc, rebootPc,
                   remote, upd, applying, stage, inst>>
    /\ UNCHANGED notSysVars

\* the user refreshes the page, as the rebooting message asks, or with
\* "Refresh Page" on the timeout message
ManualReload ==
    /\ page \in {"rebooting", "timeout"}
    /\ Reload
    /\ UNCHANGED <<dev, threadPc, setupPc, lastRestart, applyPc, rebootPc,
                   remote, upd, applying, stage, inst>>
    /\ UNCHANGED notSysVars

\* index() on POST, once configure_wifi has returned ok
SetupPost(ok) ==
    /\ setupPc = "idle"
    /\ dev = "up"
    /\ setupPc' = IF ok THEN "reboot" ELSE "respond"
    /\ UNCHANGED <<dev, threadPc, lastRestart, page, modal, disabled, ui,
                   checkPc, checkResp, checkPre, applyPc, rebootPc,
                   reconnectAttempts, timer, remote, upd, applying, stage,
                   inst>>
    /\ UNCHANGED sysHist
    /\ UNCHANGED applyOrphan
    /\ UNCHANGED notSysVars

\* index(): reboot_system(), before the return
SetupRebootSystem ==
    /\ setupPc = "reboot"
    /\ dev = "up"
    /\ Restart("setup", setupPc \notin {"reboot", "respond"})
    /\ setupPc' = "respond"
    /\ UNCHANGED <<page, modal, disabled, ui, checkPc, checkResp, checkPre,
                   reconnectAttempts, timer, remote, inst>>
    /\ UNCHANGED sysHist
    /\ UNCHANGED applyOrphan
    /\ UNCHANGED notSysVars

\* index(): return redirect(url_for('index'))
SetupRespond ==
    /\ setupPc = "respond"
    /\ setupPc' = "idle"
    /\ UNCHANGED <<dev, threadPc, lastRestart, page, modal, disabled, ui,
                   checkPc, checkResp, checkPre, applyPc, rebootPc,
                   reconnectAttempts, timer, remote, upd, applying, stage,
                   inst>>
    /\ UNCHANGED sysHist
    /\ UNCHANGED applyOrphan
    /\ UNCHANGED notSysVars

\* commits the remote source is ahead of the installed revision
Behind == remote - inst.rev

\* somebody pushes a commit to the remote source
RemotePush ==
    /\ remote < MaxCommits
    /\ remote' = remote + 1
    /\ UNCHANGED <<dev, threadPc, setupPc, lastRestart, page, modal,
                   disabled, ui, checkPc, checkResp, checkPre, applyPc,
                   rebootPc, reconnectAttempts, timer, upd, applying, stage,
                   inst>>
    /\ UNCHANGED sysHist
    /\ UNCHANGED applyOrphan
    /\ UNCHANGED notSysVars

\* checkForUpdates up to the await: click on btn-check-updates
CheckStart ==
    /\ page = "system"
    /\ modal = "none"
    /\ "btn-check-updates" \notin disabled
    /\ checkPc = "idle"
    /\ disabled' = SetButtonLoading(disabled, "btn-check-updates", TRUE)
    /\ checkPre' = ui
    /\ ui' = [ui EXCEPT !.status = "checking", !.commitsShown = FALSE,
                        !.applyShown = FALSE]
    /\ checkPc' = "sent"
    /\ appliedSince' = FALSE
    /\ UNCHANGED <<dev, threadPc, setupPc, lastRestart, page, modal,
                   checkResp, applyPc, rebootPc, reconnectAttempts, timer,
                   remote, upd, applying, stage, inst>>
    /\ UNCHANGED applyOrphan
    /\ UNCHANGED notSysVars

\* /api/check_updates: compares the local revision with the remote source;
\* when the remote cannot be reached the update state stays as it was
CheckServe(reachable) ==
    /\ checkPc = "sent"
    /\ IF dev # "up"
       THEN /\ checkPc' = "throw"
            /\ UNCHANGED <<upd, checkResp>>
       ELSE IF reachable
       THEN /\ checkPc' = "ok"
            /\ checkResp' = Behind
            /\ upd' = Behind
       ELSE /\ checkPc' = "fail"
            /\ UNCHANGED <<upd, checkResp>>
    /\ UNCHANGED <<dev, threadPc, setupPc, lastRestart, page, modal,
                   disabled, ui, checkPre, applyPc, rebootPc,
                   reconnectAttempts, timer, remote, applying, stage, inst>>
    /\ UNCHANGED sysHist
    /\ UNCHANGED applyOrphan
    /\ UNCHANGED notSysVars

\* checkForUpdates after the await: the status text, and on available
\* updates the commit list and the apply button
CheckDone ==
    /\ checkPc \in {"ok", "fail", "throw"}
    /\ ui' = IF checkPc = "ok" /\ checkResp > 0
             THEN [status |-> "available", commitsShown |-> TRUE,
                   applyShown |-> TRUE, commits |-> checkResp]
             ELSE IF checkPc = "ok"
             THEN [ui EXCEPT !.status = "uptodate"]
             ELSE [ui EXCEPT !.status = "error"]
    /\ disabled' = SetButtonLoading(disabled, "btn-check-updates", FALSE)
    /\ checkPc' = "idle"
    /\ UNCHANGED <<dev, threadPc, setupPc, lastRestart, page, modal,
                   checkResp, checkPre, applyPc, rebootPc,
                   reconnectAttempts, timer, remote, upd, applying, stage,
                   inst>>
    /\ UNCHANGED sysHist
    /\ UNCHANGED applyOrphan
    /\ UNCHANGED notSysVars

\* click on btn-apply-updates, which shows only after a check found updates
OpenUpdateModal ==
    /\ page = "system"
    /\ modal = "none"
    /\ ui.applyShown
    /\ modal' = "update"
    /\ UNCHANGED <<dev, threadPc, setupPc, lastRestart, page, disabled, ui,
                   checkPc, checkResp, checkPre, applyPc, rebootPc,
                   reconnectAttempts, timer, remote, upd, applying, stage,
                   inst>>
    /\ UNCHANGED sysHist
    /\ UNCHANGED applyOrphan
    /\ UNCHANGED notSysVars

\* applyUpdates up to the await: click on btn-confirm-update
ApplyStart ==
    /\ page = "system"
    /\ modal = "update"
    /\ "btn-confirm-update" \notin disabled
    /\ applyPc["page"] = "idle"
    /\ disabled' = SetButtonLoading(disabled, "btn-confirm-update", TRUE)
    /\ applyPc' = [applyPc EXCEPT !["page"] = "sent"]
    /\ UNCHANGED <<dev, threadPc, setupPc, lastRestart, page, modal, ui,
                   checkPc, checkResp, checkPre, rebootPc,
                   reconnectAttempts, timer, remote, upd, applying, stage,
                   inst>>
    /\ UNCHANGED sysHist
    /\ UNCHANGED applyOrphan
    /\ UNCHANGED notSysVars

\* another client posts /api/apply_updates
OtherApplyStart ==
    /\ applyPc["other"] = "idle"
    /\ applyPc' = [applyPc EXCEPT !["other"] = "sent"]
    /\ UNCHANGED <<dev, threadPc, setupPc, lastRestart, page, modal,
                   disabled, ui, checkPc, checkResp, checkPre, rebootPc,
                   reconnectAttempts, timer, remote, upd, applying, stage,
                   inst>>
    /\ UNCHANGED sysHist
    /\ UNCHANGED applyOrphan
    /\ UNCHANGED notSysVars

ApplyAcceptNoGuard(inv) ==
    /\ applyPc[inv] = "sent"
    /\ IF dev # "up"
       THEN /\ applyPc' = [applyPc EXCEPT ![inv] = "throw"]
            /\ UNCHANGED <<applying, stage>>
       ELSE /\ applyPc' = [applyPc EXCEPT ![inv] = "running"]
            /\ applying' = applying \cup {inv}
            /\ stage' = "none"
    /\ UNCHANGED <<dev, threadPc, setupPc, lastRestart, page, modal,
                   disabled, ui, checkPc, checkResp, checkPre, rebootPc,
                   reconnectAttempts, timer, remote, upd, inst>>
    /\ UNCHANGED sysHist
    /\ UNCHANGED applyOrphan
    /\ UNCHANGED notSysVars

\* /api/apply_updates, entry: AlreadyInProgress while an apply is running
ApplyAccept(inv) ==
    /\ applyPc[inv] = "sent"
    /\ IF dev # "up"
       THEN /\ applyPc' = [applyPc EXCEPT ![inv] = "throw"]
            /\ UNCHANGED <<applying, stage>>
       ELSE IF applying # {}
       THEN /\ applyPc' = [applyPc EXCEPT ![inv] = "busy"]
            /\ UNCHANGED <<applying, stage>>
       ELSE /\ applyPc' = [applyPc EXCEPT ![inv] = "running"]
            /\ applying' = {inv}
            /\ stage' = "none"
    /\ UNCHANGED <<dev, threadPc, setupPc, lastRestart, page, modal,
                   disabled, ui, checkPc, checkResp, checkPre, rebootPc,
                   reconnectAttempts, timer, remote, upd, inst>>
    /\ UNCHANGED sysHist
    /\ UNCHANGED applyOrphan
    /\ UNCHANGED notSysVars

\* /api/apply_updates: the new revision is fetched beside the installed
\* one; the fetch breaks off ("partial"), or brings a revision that starts
\* ("good") or one that does not ("bad")
ApplyFetch(got) ==
    /\ applying # {}
    /\ stage = "none"
    /\ stage' = got
    /\ UNCHANGED <<dev, threadPc, setupPc, lastRestart, page, modal,
                   disabled, ui, checkPc, checkResp, checkPre, applyPc,
                   rebootPc, reconnectAttempts, timer, remote, upd,
                   applying, inst>>
    /\ UNCHANGED sysHist
    /\ UNCHANGED applyOrphan
    /\ UNCHANGED notSysVars

ApplyFinishNoRollback(inv) ==
    /\ inv \in applying
    /\ applyPc[inv] = "running"
    /\ stage # "none"
    /\ inst' = [rev |-> IF stage = "partial" THEN inst.rev ELSE remote,
                ok |-> stage = "good"]
    /\ upd' = IF stage = "good" THEN Unknown ELSE upd
    /\ applyPc' = [applyPc EXCEPT
                     ![inv] = IF stage = "good" THEN "ok" ELSE "fail"]
    /\ applying' = {}
    /\ stage' = "none"
    /\ UNCHANGED <<dev, threadPc, setupPc, lastRestart, page, modal,
                   disabled, ui, checkPc, checkResp, checkPre, rebootPc,
                   reconnectAttempts, timer, remote>>
    /\ UNCHANGED sysHist
    /\ UNCHANGED applyOrphan
    /\ UNCHANGED notSysVars

\* /api/apply_updates, end: a fetched revision that starts becomes the
\* installed one and the update state is reset to unknown; otherwise the
\* installed revision stays (rollback) and the apply fails
ApplyFinish(inv) ==
    /\ inv \in applying
    /\ applyPc[inv] = "running"
    /\ stage # "none"
    /\ IF stage = "good"
       THEN /\ inst' = [rev |-> remote, ok |-> TRUE]
            /\ upd' = Unknown
            /\ applyPc' = [applyPc EXCEPT ![inv] = "ok"]
       ELSE /\ UNCHANGED <<inst, upd>>
            /\ applyPc' = [applyPc EXCEPT ![inv] = "fail"]
    /\ applying' = {}
    /\ stage' = "none"
    /\ UNCHANGED <<dev, threadPc, setupPc, lastRestart, page, modal,
                   disabled, ui, checkPc, checkResp, checkPre, rebootPc,
                   reconnectAttempts, timer, remote>>
    /\ UNCHANGED sysHist
    /\ UNCHANGED applyOrphan
    /\ UNCHANGED notSysVars

ApplyDoneKeepsOffer ==
    /\ applyPc["page"] \in {"ok", "fail", "busy", "throw"}
    /\ IF applyOrphan
       THEN UNCHANGED <<modal, ui, disabled, appliedSince>>
       ELSE /\ modal' = "none"
            /\ ui' = IF applyPc["page"] = "ok"
                     THEN [ui EXCEPT !.status = "applied"]
                     ELSE ui
            /\ disabled' =
                 SetButtonLoading(disabled, "btn-confirm-update", FALSE)
            /\ appliedSince' = (appliedSince \/ applyPc["page"] = "ok")
    /\ applyPc' = [applyPc EXCEPT !["page"] = "idle"]
    /\ applyOrphan' = FALSE
    /\ UNCHANGED <<dev, threadPc, setupPc, lastRestart, page, checkPc,
                   checkResp, checkPre, rebootPc, reconnectAttempts, timer,
                   remote, upd, applying, stage, inst>>
    /\ UNCHANGED notSysVars

\* applyUpdates after the await: the modal closes; on success the status
\* offers "Reboot Now" and the apply button and the commit list are hidden.
\* The response to a request of a page reloaded since reaches no handler.
ApplyDone ==
    /\ applyPc["page"] \in {"ok", "fail", "busy", "throw"}
    /\ IF applyOrphan
       THEN UNCHANGED <<modal, ui, disabled, appliedSince>>
       ELSE /\ modal' = "none"
            /\ ui' = IF applyPc["page"] = "ok"
                     THEN [ui EXCEPT !.status = "applied", !.applyShown = FALSE,
                                     !.commitsShown = FALSE]
                     ELSE ui
            /\ disabled' =
                 SetButtonLoading(disabled, "btn-confirm-update", FALSE)
            /\ appliedSince' = (appliedSince \/ applyPc["page"] = "ok")
    /\ applyPc' = [applyPc EXCEPT !["page"] = "idle"]
    /\ applyOrphan' = FALSE
    /\ UNCHANGED <<dev, threadPc, setupPc, lastRestart, page, checkPc,
                   checkResp, checkPre, rebootPc, reconnectAttempts, timer,
                   remote, upd, applying, stage, inst>>
    /\ UNCHANGED notSysVars

\* the other client gets its answer
OtherApplyDone ==
    /\ applyPc["other"] \in {"ok", "fail", "busy", "throw"}
    /\ applyPc' = [applyPc EXCEPT !["other"] = "idle"]
    /\ UNCHANGED <<dev, threadPc, setupPc, lastRestart, page, modal,
                   disabled, ui, checkPc, checkResp, checkPre, rebootPc,
                   reconnectAttempts, timer, remote, upd, applying, stage,
                   inst>>
    /\ UNCHANGED sysHist
    /\ UNCHANGED applyOrphan
    /\ UNCHANGED notSysVars

\* the system page's reboot, the setup page's reboot, and the reconnect
NextReboot ==
    \/ OpenRebootModal
    \/ CancelModal
    \/ RebootStart
    \/ ApiReboot
    \/ ApiRebootReturn
    \/ DoReboot
    \/ RebootDone
    \/ DeviceBoot
    \/ AttemptReconnect
    \/ ManualReload
    \/ \E ok \in BOOLEAN : SetupPost(ok)
    \/ SetupRebootSystem
    \/ SetupRespond

SpecReboot == Init /\ [][NextReboot]_vars

\* the timer fires, the handlers and the thread run on, the device starts
SpecRebootFair ==
    /\ SpecReboot
    /\ WF_vars(AttemptReconnect)
    /\ WF_vars(ApiReboot)
    /\ WF_vars(ApiRebootReturn)
    /\ WF_vars(DoReboot)
    /\ WF_vars(RebootDone)
    /\ WF_vars(DeviceBoot)

\* checking for and applying updates, and the reboot offered after them
NextUpdate ==
    \/ RemotePush
    \/ CheckStart
    \/ \E reachable \in BOOLEAN : CheckServe(reachable)
    \/ CheckDone
    \/ OpenUpdateModal
    \/ ApplyStart
    \/ OtherApplyStart
    \/ \E inv \in Invokers : ApplyAccept(inv)
    \/ \E got \in {"partial", "good", "bad"} : ApplyFetch(got)
    \/ \E inv \in Invokers : ApplyFinish(inv)
    \/ ApplyDone
    \/ OtherApplyDone
    \/ OpenRebootModal
    \/ CancelModal
    \/ RebootStart
    \/ ApiReboot
    \/ ApiRebootReturn
    \/ DoReboot
    \/ RebootDone
    \/ DeviceBoot
    \/ ManualReload

SpecUpdate == Init /\ [][NextUpdate]_vars

\* ------------------------------------------------------- the WiFi page

MaxInFlight == 2
MaxLoads == 1

\* the networks in reach
PageSsids == ScanNames

sysButPage == <<dev, threadPc, setupPc, lastRestart, modal, disabled, ui,
                checkPc, checkResp, checkPre, applyPc, rebootPc,
                reconnectAttempts, timer, remote, upd, applying, stage, inst,
                applyOrphan>>

\* upsert(profile): the profile of that name is replaced, never doubled
upsert(st, prof) == { q \in st : q.name # prof.name } \cup {prof}

\* remove(name)
remove(st, name) == { q \in st : q.name # name }

ListNetworksWithSecret(st) == st

\* /api/wifi/networks: name and autoconnect of each profile
ListNetworks(st) ==
    { [name |-> q.name, autoconnect |-> q.autoconnect] : q \in st }

\* displaySavedNetworks: a row per network, with its name, the Auto tag
\* and the button that calls showForgetModal(name)
displaySavedNetworks(networks) ==
    { [name |-> n.name, auto |-> n.autoconnect] : n \in networks }

\* the stores that differ from st in profile secrets only
SecretVariants(st) ==
    { { [q EXCEPT !.secret = f[q]] : q \in st } : f \in [st -> Passwords] }

\* the modal a confirm button sits in
ModalOf(button) ==
    IF button = "btn-modal-connect" THEN "connect-modal" ELSE "forget-modal"

\* closeModal(modalId)
closeModal(m, modalId) == IF m = modalId THEN "none" ELSE m

\* the oldest request of the button
Oldest(button) == Head(wreq[button])

\* showNotification, as far as it names a network: the texts "Connected to"
\* and "Removed" with the SSID put into them, any other text without one
Notify(text, ssid) == [text |-> text, ssid |-> ssid]

\* loadSavedNetworks(): one more request for /api/wifi/networks; requests
\* beyond MaxLoads at a time are counted with the ones in flight
loadSavedNetworks(n) == IF n < MaxLoads THEN n + 1 ELSE n

\* the user opens the WiFi page, with the system page as it was loaded:
\* DOMContentLoaded calls loadSavedNetworks() and scanNetworks()
OpenWifiPage ==
    /\ page = "system"
    /\ SysInit
    /\ page' = "wifi"
    /\ wdisabled' = SetButtonLoading(wdisabled, "btn-scan", TRUE)
    /\ wreq' = [wreq EXCEPT !["btn-scan"] = Append(@, NoSsid)]
    /\ loads' = loadSavedNetworks(loads)
    /\ UNCHANGED <<selectedSSID, wmodal, modalSsid, notification, available,
                   savedRows, profiles>>
    /\ UNCHANGED sysButPage
    /\ UNCHANGED notWifiVars

\* scanNetworks up to the await: click on btn-scan
ScanNetworks ==
    /\ page = "wifi"
    /\ wmodal = "none"
    /\ "btn-scan" \notin wdisabled
    /\ Len(wreq["btn-scan"]) < MaxInFlight
    /\ wdisabled' = SetButtonLoading(wdisabled, "btn-scan", TRUE)
    /\ available' = {}
    /\ wreq' = [wreq EXCEPT !["btn-scan"] = Append(@, NoSsid)]
    /\ UNCHANGED <<selectedSSID, wmodal, modalSsid, notification, savedRows,
                   loads, profiles>>
    /\ UNCHANGED sysVars
    /\ UNCHANGED notWifiVars

\* /api/wifi/scan answers and scanNetworks runs on: the rows of the
\* networks found, or the failure row, or the error row and a notification
ScanNetworksDone(res) ==
    /\ page = "wifi"
    /\ wreq["btn-scan"] # <<>>
    /\ available' = IF res = "ok" THEN PageSsids ELSE {}
    /\ notification' = IF res = "throw" THEN Notify("other", NoSsid)
                       ELSE notification
    /\ wdisabled' = SetButtonLoading(wdisabled, "btn-scan", FALSE)
    /\ wreq' = [wreq EXCEPT !["btn-scan"] = Tail(@)]
    /\ UNCHANGED <<selectedSSID, wmodal, modalSsid, savedRows, loads,
                   profiles>>
    /\ UNCHANGED sysVars
    /\ UNCHANGED notWifiVars

\* /api/wifi/networks answers and loadSavedNetworks runs on
LoadSavedNetworksDone(res) ==
    /\ page = "wifi"
    /\ loads > 0
    /\ loads' = loads - 1
    /\ savedRows' = IF res = "ok"
                    THEN displaySavedNetworks(ListNetworks(profiles))
                    ELSE savedRows
    /\ UNCHANGED <<selectedSSID, wmodal, modalSsid, wdisabled, wreq,
                   notification, available, profiles>>
    /\ UNCHANGED sysVars
    /\ UNCHANGED notWifiVars

\* showConnectModal(ssid): click on Connect in a row of the networks found
ShowConnectModal(ssid) ==
    /\ page = "wifi"
    /\ wmodal = "none"
    /\ ssid \in available
    /\ selectedSSID' = ssid
    /\ modalSsid' = [modalSsid EXCEPT !["connect-modal"] = ssid]
    /\ wmodal' = "connect-modal"
    /\ UNCHANGED <<wdisabled, wreq, notification, available, savedRows,
                   loads, profiles>>
    /\ UNCHANGED sysVars
    /\ UNCHANGED notWifiVars

\* showForgetModal(ssid): click on the trash button in a row of the saved
\* networks
ShowForgetModal(ssid) ==
    /\ page = "wifi"
    /\ wmodal = "none"
    /\ \E row \in savedRows : row.name = ssid
    /\ selectedSSID' = ssid
    /\ modalSsid' = [modalSsid EXCEPT !["forget-modal"] = ssid]
    /\ wmodal' = "forget-modal"
    /\ UNCHANGED <<wdisabled, wreq, notification, available, savedRows,
                   loads, profiles>>
    /\ UNCHANGED sysVars
    /\ UNCHANGED notWifiVars

\* main.js: a click on the modal's background, its close button or its
\* cancel button, or the Escape key, closes the modal
CloseWifiModal ==
    /\ page = "wifi"
    /\ wmodal # "none"
    /\ wmodal' = "none"
    /\ UNCHANGED <<selectedSSID, modalSsid, wdisabled, wreq, notification,
                   available, savedRows, loads, profiles>>
    /\ UNCHANGED sysVars
    /\ UNCHANGED notWifiVars

\* connectFromModal up to the await: click on btn-modal-connect; without a
\* password only a warning
ConnectFromModal(typed) ==
    /\ page = "wifi"
    /\ wmodal = "connect-modal"
    /\ "btn-modal-connect" \notin wdisabled
    /\ Len(wreq["btn-modal-connect"]) < MaxInFlight
    /\ IF ~typed
       THEN /\ notification' = Notify("other", NoSsid)
            /\ UNCHANGED <<wdisabled, wreq>>
       ELSE /\ wdisabled' =
                 SetButtonLoading(wdisabled, "btn-modal-connect", TRUE)
            /\ wreq' = [wreq EXCEPT !["btn-modal-connect"] =
                          Append(@, selectedSSID)]
            /\ UNCHANGED notification
    /\ UNCHANGED <<selectedSSID, wmodal, modalSsid, available, savedRows,
                   loads, profiles>>
    /\ UNCHANGED sysVars
    /\ UNCHANGED notWifiVars

\* /api/wifi/connect answers, having persisted the profile on success and
\* left the profiles alone otherwise, and connectFromModal runs on. The
\* password and the autoconnect flag of the request are drawn here, where
\* they are first read.
ConnectFromModalDone(res, password, autoconnect) ==
    /\ page = "wifi"
    /\ wreq["btn-modal-connect"] # <<>>
    /\ IF res = "ok"
       THEN /\ profiles' = upsert(profiles,
                                  [name |-> Oldest("btn-modal-connect"),
                                   secret |-> password,
                                   autoconnect |-> autoconnect])
            /\ notification' = Notify("Connected to", selectedSSID)
            /\ wmodal' = closeModal(wmodal, "connect-modal")
            /\ loads' = loadSavedNetworks(loads)
       ELSE /\ notification' = Notify("other", NoSsid)
            /\ UNCHANGED <<profiles, wmodal, loads>>
    /\ wdisabled' = SetButtonLoading(wdisabled, "btn-modal-connect", FALSE)
    /\ wreq' = [wreq EXCEPT !["btn-modal-connect"] = Tail(@)]
    /\ UNCHANGED <<selectedSSID, modalSsid, available, savedRows>>
    /\ UNCHANGED sysVars
    /\ UNCHANGED notWifiVars

\* addNetwork up to the await: click on btn-add-network; without a name or
\* a password only a warning
AddNetwork(ssid, typed) ==
    /\ page = "wifi"
    /\ wmodal = "none"
    /\ "btn-add-network" \notin wdisabled
    /\ Len(wreq["btn-add-network"]) < MaxInFlight
    /\ IF ssid = NoSsid \/ ~typed
       THEN /\ notification' = Notify("other", NoSsid)
            /\ UNCHANGED <<wdisabled, wreq>>
       ELSE /\ wdisabled' =
                 SetButtonLoading(wdisabled, "btn-add-network", TRUE)
            /\ wreq' = [wreq EXCEPT !["btn-add-network"] = Append(@, ssid)]
            /\ UNCHANGED notification
    /\ UNCHANGED <<selectedSSID, wmodal, modalSsid, available, savedRows,
                   loads, profiles>>
    /\ UNCHANGED sysVars
    /\ UNCHANGED notWifiVars

\* /api/wifi/connect answers and addNetwork runs on
AddNetworkDone(res, password, autoconnect) ==
    /\ page = "wifi"
    /\ wreq["btn-add-network"] # <<>>
    /\ IF res = "ok"
       THEN /\ profiles' = upsert(profiles,
                                  [name |-> Oldest("btn-add-network"),
                                   secret |-> password,
                                   autoconnect |-> autoconnect])
            /\ notification' =
                 Notify("Connected to", Oldest("btn-add-network"))
            /\ loads' = loadSavedNetworks(loads)
       ELSE /\ notification' = Notify("other", NoSsid)
            /\ UNCHANGED <<profiles, loads>>
    /\ wdisabled' = SetButtonLoading(wdisabled, "btn-add-network", FALSE)
    /\ wreq' = [wreq EXCEPT !["btn-add-network"] = Tail(@)]
    /\ UNCHANGED <<selectedSSID, wmodal, modalSsid, available, savedRows>>
    /\ UNCHANGED sysVars
    /\ UNCHANGED notWifiVars

\* forgetNetwork up to the await: click on btn-confirm-forget
ForgetNetwork ==
    /\ page = "wifi"
    /\ wmodal = "forget-modal"
    /\ "btn-confirm-forget" \notin wdisabled
    /\ Len(wreq["btn-confirm-forget"]) < MaxInFlight
    /\ wdisabled' = SetButtonLoading(wdisabled, "btn-confirm-forget", TRUE)
    /\ wreq' = [wreq EXCEPT !["btn-confirm-forget"] =
                  Append(@, selectedSSID)]
    /\ UNCHANGED <<selectedSSID, wmodal, modalSsid, notification, available,
                   savedRows, loads, profiles>>
    /\ UNCHANGED sysVars
    /\ UNCHANGED notWifiVars

\* /api/wifi/forget answers, having removed the profile of that name on
\* success, and forgetNetwork runs on
ForgetNetworkDone(res) ==
    /\ page = "wifi"
    /\ wreq["btn-confirm-forget"] # <<>>
    /\ IF res = "ok"
       THEN /\ profiles' = remove(profiles, Oldest("btn-confirm-forget"))
            /\ notification' = Notify("Removed", selectedSSID)
            /\ wmodal' = closeModal(wmodal, "forget-modal")
            /\ loads' = loadSavedNetworks(loads)
       ELSE /\ notification' = Notify("other", NoSsid)
            /\ UNCHANGED <<profiles, wmodal, loads>>
    /\ wdisabled' = SetButtonLoading(wdisabled, "btn-confirm-forget", FALSE)
    /\ wreq' = [wreq EXCEPT !["btn-confirm-forget"] = Tail(@)]
    /\ UNCHANGED <<selectedSSID, modalSsid, available, savedRows>>
    /\ UNCHANGED sysVars
    /\ UNCHANGED notWifiVars

\* success, success:false, thrown error
Outcomes == {"ok", "fail", "throw"}

\* the saved networks of the WiFi page: networks are added with any
\* password and either autoconnect flag, and listed
NextList ==
    \/ OpenWifiPage
    \/ \E res \in Outcomes : ScanNetworksDone(res)
    \/ \E res \in Outcomes : LoadSavedNetworksDone(res)
    \/ \E ssid \in PageSsids \cup {NoSsid}, typed \in BOOLEAN :
          AddNetwork(ssid, typed)
    \/ \E res \in Outcomes, password \in Passwords, autoconnect \in BOOLEAN :
          AddNetworkDone(res, password, autoconnect)

SpecList == Init /\ [][NextList]_vars

\* the WiFi page with one password and autoconnect checked, as
\* showConnectModal sets it
WifiHandlers ==
    \/ ScanNetworks
    \/ \E res \in Outcomes : ScanNetworksDone(res)
    \/ \E res \in Outcomes : LoadSavedNetworksDone(res)
    \/ \E ssid \in PageSsids : ShowConnectModal(ssid)
    \/ \E ssid \in PageSsids : ShowForgetModal(ssid)
    \/ CloseWifiModal
    \/ \E typed \in BOOLEAN : ConnectFromModal(typed)
    \/ \E res \in Outcomes : ConnectFromModalDone(res, 1, TRUE)
    \/ \E ssid \in PageSsids \cup {NoSsid}, typed \in BOOLEAN :
          AddNetwork(ssid, typed)
    \/ \E res \in Outcomes : AddNetworkDone(res, 1, TRUE)
    \/ ForgetNetwork
    \/ \E res \in Outcomes : ForgetNetworkDone(res)

\* the handlers of the system page
SystemHandlers ==
    \/ RemotePush
    \/ CheckStart
    \/ \E reachable \in BOOLEAN : CheckServe(reachable)
    \/ CheckDone
    \/ OpenUpdateModal
    \/ ApplyStart
    \/ ApplyAccept("page")
    \/ \E got \in {"partial", "good", "bad"} : ApplyFetch(got)
    \/ ApplyFinish("page")
    \/ ApplyDone
    \/ OpenRebootModal
    \/ CancelModal
    \/ RebootStart
    \/ ApiReboot
    \/ ApiRebootReturn
    \/ DoReboot
    \/ RebootDone
    \/ DeviceBoot
    \/ AttemptReconnect

\* the dashboard: the user works on the system page or opens the WiFi page
NextDashboard ==
    \/ OpenWifiPage
    \/ WifiHandlers
    \/ SystemHandlers

SpecDashboard == Init /\ [][NextDashboard]_vars

\* ---------------------------------------------------------- startup.sh

\* lines a .env file may hold, as words
EnvLines == { <<"OPENAI_API_KEY", "=", "sk">>,
              <<"OPENAI_API_KEY", "=">>,
              <<"PRINTER", "=", "cat">> }

StartupInputs ==
    [cdOk : BOOLEAN, venvOk : BOOLEAN,
     env : {NoEnvFile} \cup [exists : {TRUE}, lines : SUBSET EnvLines],
     libcamera : BOOLEAN]

\* grep -q "OPENAI_API_KEY" .env: some line holds the word; no file, no
\* match
GrepKey(env) ==
    /\ env.exists
    /\ \E line \in env.lines : \E i \in DOMAIN line : line[i] = "OPENAI_API_KEY"

\* the device starts and runs startup.sh
StartupRun(in) ==
    /\ stPc \in {"off", "done", "exit1"}
    /\ stPc' = "cd"
    /\ stIn' = in
    /\ launched' = <<>>
    /\ UNCHANGED notStartVars

\* cd /home/shschubert/PoetryCamera || { ...; exit 1; }
StartupCd ==
    /\ stPc = "cd"
    /\ stPc' = IF stIn.cdOk THEN "venv" ELSE "exit1"
    /\ UNCHANGED <<stIn, launched>>
    /\ UNCHANGED notStartVars

\* source poetrycamera-env/bin/activate; exit 1 when $? is not 0
StartupVenv ==
    /\ stPc = "venv"
    /\ stPc' = IF stIn.venvOk THEN "netcheck" ELSE "exit1"
    /\ UNCHANGED <<stIn, launched>>
    /\ UNCHANGED notStartVars

\* python3 .../connection_check.py &: $? after & is 0, the exit 1 below it
\* is never taken
StartupNetCheck ==
    /\ stPc = "netcheck"
    /\ launched' = Append(launched, "connection_check")
    /\ stPc' = "web"
    /\ UNCHANGED stIn
    /\ UNCHANGED notStartVars

\* python3 -m gunicorn ... --bind 0.0.0.0:8000 web_interface.app:app &
StartupWeb ==
    /\ stPc = "web"
    /\ launched' = Append(launched, "web_interface")
    /\ stPc' = "key"
    /\ UNCHANGED stIn
    /\ UNCHANGED notStartVars

\* if grep -q "OPENAI_API_KEY" .env
StartupKey ==
    /\ stPc = "key"
    /\ stPc' = IF GrepKey(stIn.env) THEN "libcamera" ELSE "done"
    /\ UNCHANGED <<stIn, launched>>
    /\ UNCHANGED notStartVars

StartupLibcameraIgnored ==
    /\ stPc = "libcamera"
    /\ stPc' = "printer"
    /\ UNCHANGED <<stIn, launched>>
    /\ UNCHANGED notStartVars

\* if python3 -c "import libcamera"; else exit 1
StartupLibcamera ==
    /\ stPc = "libcamera"
    /\ stPc' = IF stIn.libcamera THEN "printer" ELSE "exit1"
    /\ UNCHANGED <<stIn, launched>>
    /\ UNCHANGED notStartVars

\* gunicorn ... printer.scripts.cat_printer:app --bind 0.0.0.0:5002 &
StartupPrinter ==
    /\ stPc = "printer"
    /\ launched' = Append(launched, "cat_printer")
    /\ stPc' = "main"
    /\ UNCHANGED stIn
    /\ UNCHANGED notStartVars

\* python3 main.py &
StartupMain ==
    /\ stPc = "main"
    /\ launched' = Append(launched, "main.py")
    /\ stPc' = "done"
    /\ UNCHANGED stIn
    /\ UNCHANGED notStartVars

NextStartup ==
    \/ \E in \in StartupInputs : StartupRun(in)
    \/ StartupCd
    \/ StartupVenv
    \/ StartupNetCheck
    \/ StartupWeb
    \/ StartupKey
    \/ StartupLibcamera
    \/ StartupPrinter
    \/ StartupMain

SpecStartup == Init /\ [][NextStartup]_vars

TypeOK ==
    /\ active \in ConnNames \cup {NoConn}
    /\ svc \in [Units -> BOOLEAN]
    /\ bootPc \in {"netcheck", "web", "done"}
    /\ ccPc \in {"off", "running", "done"}
    /\ wifiPc \in {"idle", "tee", "chmod", "reload", "up", "ret"}
    /\ apPc \in {"idle", "stop_dhcpcd", "stop_wpa", "start_hostapd",
                 "start_dnsmasq"}
    /\ result \in {"none", "ok", "fail"}
    /\ forgot \in {"none", "active", "other", "absent"}
    /\ scanPc \in {"idle", "iwlist"}

\* ================================================================ claims

\* the step is one taken by the connect handler (index POST and the lines
\* of write_wifi_config.sh it runs)
ConnectStep == wifiPc # "idle" /\ wifiPc' # wifiPc

\* C1: after any sequence of connects and forgets the store holds at most
\* one profile per connection name; a connect for an existing name
\* rewrites that profile and adds no second one.
C1_OneProfilePerName ==
    \A f \in store, g \in store : f.id = g.id => f = g

\* a connect has just rewritten a profile file that existed before, with a
\* password other than the one typed earlier still loaded in NetworkManager
C1_Witness ==
    /\ wifiPc = "chmod"
    /\ \E f \in store : /\ f.id = connection_name(req.ssid)
                        /\ f.perms = 600
                        /\ f.psk = req.password
    /\ \E g \in nmLoaded : /\ g.id = connection_name(req.ssid)
                           /\ g.psk # req.password

\* C2: whenever a connection is active (Station.Connected), the profile of
\* that connection is present in the store.
C2_ActiveProfileInStore ==
    active # NoConn => \E f \in store : f.id = active

\* connected to one profile after another profile has been forgotten
C2_Witness ==
    /\ active # NoConn
    /\ forgot = "other"
    /\ \E f \in store : f.id = active

\* C3: a connect whose activation fails (here: the password is not the
\* network's, so the activation is rejected) leaves the store, the active
\* connection and the services as they were, at every step of the handler.
C3_FailedConnectChangesNothing ==
    [][ (ConnectStep /\ req.password # CorrectPsk(req.ssid))
          => (store' = store /\ active' = active /\ svc' = svc) ]_vars

\* C4: forget of the active connection removes its profile, deactivates it
\* and leaves the device in AccessPoint.Active in that one step; forget of
\* any other name leaves the mode and the active connection alone.
C4_ForgetActiveEntersAp ==
    [][ \A n \in ConnNames :
          Forget(n) =>
            /\ FilesAt(store', n) = {}
            /\ IF active = n
               THEN active' = NoConn /\ Mode' = "AccessPoint.Active"
               ELSE active' = active /\ Mode' = Mode ]_vars

\* the active connection has been forgotten and the device is in AP mode
C4_Witness ==
    /\ forgot = "active"
    /\ active = NoConn
    /\ Mode = "AccessPoint.Active"

\* C5: a connect for the profile that is already active, with the same
\* arguments, is a no-op: the handler never gets past `nmcli connection up`
\* (a new activation, after which index() restarts the device).
C5_ReconnectIsNoOp ==
    ~(req.alreadyActive /\ wifiPc = "ret")

\* C6: when a connect succeeds the mode is Station.Connected and the store
\* holds exactly one profile for the request's ssid, whose autoconnect flag
\* is the one the request carried.
C6_SuccessfulConnectStoresRequest ==
    [][ (wifiPc = "up" /\ wifiPc' = "ret" /\ result' = "ok")
          => /\ Mode' = "Station.Connected"
             /\ Cardinality({ f \in store' : f.ssid = req.ssid }) = 1
             /\ \A f \in store' :
                   f.ssid = req.ssid => f.autoconnect = req.autoconnect ]_vars

\* C7: when the connection check at start finds no connection the device
\* is put in AccessPoint.Active; it is left in a Station mode only when the
\* probe reports a connection, and then the services are left alone.
C7_InitialMode ==
    [][ (ccPc = "running" /\ ccPc' = "done")
          => /\ active = NoConn => Mode' = "AccessPoint.Active"
             /\ Mode' \in {"Station.Connected", "Station.Disconnected"}
                   => active # NoConn
             /\ active # NoConn => svc' = svc ]_vars

\* fresh device: nothing stored, nothing connected, check done, AP active
C7_Witness ==
    /\ ccPc = "done"
    /\ store = {}
    /\ active = NoConn
    /\ apPc = "idle"
    /\ forgot = "none"
    /\ Mode = "AccessPoint.Active"

\* C8: a station profile is never activated while an access-point service
\* is still running: the AP services are shut down before the activation.
C8_ExitApBeforeActivate ==
    [][ (wifiPc = "up" /\ wifiPc' = "ret" /\ result' = "ok") => ~ApRole ]_vars

\* C9: in every state exactly one of the two radio roles is running.
C9_ExactlyOneRole ==
    (ApRole /\ ~StaRole) \/ (StaRole /\ ~ApRole)

C11_NoAutomaticFallback ==
    [][ /\ (Mode' = "AccessPoint.Active" /\ Mode # "AccessPoint.Active")
             => \/ ResetApModeStep
                \/ ConnectionCheck /\ active = NoConn
                \/ \E n \in ConnNames : Forget(n) /\ active = n
        /\ (wifiPc = "ret" /\ result = "fail" /\ wifiPc' # wifiPc)
             => /\ wifiPc' = "idle"
                /\ svc' = svc
                /\ active' = active
                /\ bootPc' = bootPc ]_vars

\* a connect with a wrong password has failed on a device in station mode
C11_Witness ==
    /\ wifiPc = "ret"
    /\ result = "fail"
    /\ req.password # CorrectPsk(req.ssid)
    /\ Mode = "Station.Disconnected"

\* C12: a scan is never started while a connect is being handled, and an
\* activation is never issued while a scan is running.
C12_NoScanDuringConnect ==
    [][ /\ (scanPc = "idle" /\ scanPc' = "iwlist") => wifiPc = "idle"
        /\ (wifiPc = "up" /\ wifiPc' = "ret") => scanPc = "idle" ]_vars

\* C13: at most one of connect, scan and enterApMode is in flight.
C13_OneNetworkOperation ==
    Cardinality({ op \in {"connect", "scan", "enterApMode"} :
                    \/ op = "connect" /\ wifiPc # "idle"
                    \/ op = "scan" /\ scanPc # "idle"
                    \/ op = "enterApMode" /\ apPc # "idle" }) <= 1

\* C14: an apply requested while one is running is answered
\* AlreadyInProgress without starting anything and without touching the
\* update state; at most one apply is in progress.
C14_OneApplyAtATime ==
    [][ /\ \A inv \in Invokers :
             (applyPc[inv] = "sent" /\ applyPc'[inv] # "sent"
                /\ dev = "up" /\ applying # {})
               => /\ applyPc'[inv] = "busy"
                  /\ applying' = applying
                  /\ stage' = stage
                  /\ upd' = upd
                  /\ inst' = inst
        /\ Cardinality(applying') <= 1 ]_vars

\* the other client was turned away while the page's apply is running
C14_Witness ==
    /\ applyPc["page"] = "running"
    /\ applying = {"page"}
    /\ applyPc["other"] = "busy"

\* C15: a successful apply resets the update state to unknown, the page
\* that waited for it then shows neither pending commits nor the apply
\* offer, and nothing
\* about the apply requests or issues a restart: a reboot request is sent
\* only from the confirmation modal, and the device goes down only by the
\* thread such a request started.
C15_ApplyResetsAndDoesNotReboot ==
    [][ /\ \A inv \in Invokers :
             (applyPc[inv] = "running" /\ applyPc'[inv] = "ok")
               => /\ upd' = Unknown
                  /\ rebootPc' = rebootPc
                  /\ threadPc' = threadPc
                  /\ dev' = dev
        /\ (applyPc["page"] = "ok" /\ applyPc'["page"] = "idle"
            /\ ~applyOrphan)
             => /\ ~ui'.applyShown
                /\ ~ui'.commitsShown
                /\ rebootPc' = rebootPc
                /\ threadPc' = threadPc
                /\ dev' = dev
        /\ (rebootPc = "idle" /\ rebootPc' = "sent") => modal = "reboot"
        /\ (dev = "up" /\ dev' = "down") => threadPc = "sleeping" ]_vars

\* the page has applied an update that was on offer, and the device is
\* still up with no reboot asked for
C15_Witness ==
    /\ ui.status = "applied"
    /\ ui.commits > 0
    /\ upd = Unknown
    /\ inst.rev > 0
    /\ dev = "up"
    /\ rebootPc = "idle"
    /\ threadPc = "none"
    /\ lastRestart = NoRestart

\* C16: a check that fails leaves the update state as it was: the server's
\* record, and on the page the commit list and the apply offer.
C16_FailedCheckKeepsState ==
    [][ /\ (checkPc = "sent" /\ checkPc' \in {"fail", "throw"})
             => upd' = upd
        /\ (CheckDone /\ checkPc \in {"fail", "throw"})
             => /\ ui'.applyShown = checkPre.applyShown
                /\ ui'.commitsShown = checkPre.commitsShown
                /\ ui'.commits = checkPre.commits ]_vars

C18_RestartAfterResponse ==
    lastRestart.by # "none" => lastRestart.responded

\* C19: once a reboot request is answered the device goes down, and it
\* comes up again;
\* the rebooting page stops polling, by a reload or after
\* maxReconnectAttempts probes by the timeout message; a probe that finds
\* the device up reloads the page.
C19_ReconnectAfterReboot ==
    /\ [][ /\ (page = "rebooting" /\ dev = "up" /\ dev' = "up"
                 /\ (reconnectAttempts' # reconnectAttempts \/ page' # page))
                => page' = "system"
           /\ (page # "timeout" /\ page' = "timeout")
                => reconnectAttempts' = maxReconnectAttempts ]_vars
    /\ (threadPc = "sleeping") ~> (dev = "down")
    /\ (dev = "down") ~> (dev = "up")
    /\ (page = "rebooting") ~> (page \in {"system", "timeout"})

\* probes have failed, the device is up again, and the next probe is due
C19_Witness ==
    /\ page = "rebooting"
    /\ reconnectAttempts > 0
    /\ timer # NoTimer
    /\ dev = "up"
    /\ lastRestart = [by |-> "dashboard", responded |-> TRUE]

\* C20: forget of a name that has no profile in the store changes neither
\* the store nor the active connection nor the mode; after any forget the
\* name is neither stored nor active, so a second forget is such a no-op.
C20_ForgetAbsentIsNoOp ==
    [][ \A n \in ConnNames :
          Forget(n) =>
            /\ (~\E f \in store : f.id = n)
                 => /\ store' = store
                    /\ active' = active
                    /\ svc' = svc
                    /\ Mode' = Mode
            /\ ~\E f \in store' : f.id = n
            /\ active' # n ]_vars

\* a name without a profile has been forgotten while another profile is
\* stored and active
C20_Witness ==
    /\ forgot = "absent"
    /\ active # NoConn
    /\ \E f \in store : f.id = active

\* C29: writing the profile of one SSID leaves the stored profile of every
\* other SSID in place.
C29_DistinctSsidsDistinctProfiles ==
    [][ (wifiPc = "tee" /\ wifiPc' = "chmod")
          => \A f \in store : f.ssid # req.ssid => f \in store' ]_vars

\* C21: no complete profile file is left with the permissions it had before
\* chmod: while no write is running every stored file has mode 600.
C21_NoPreChmodFileLeft ==
    wifiPc = "idle" => \A f \in store : f.perms = 600

\* C30: configure_wifi gets exit status 0, and index() then announces
\* success and reboots, only when no command of the script failed.
C30_SuccessMeansEveryStep ==
    (wifiPc = "ret" /\ result = "ok") => ~stepFailed

\* C23: a scan that iwlist failed is not handed to the page as an empty
\* list of networks.
C23_FailedScanIsNotEmpty ==
    ~(lastScan.failed /\ lastScan.networks = <<>>)

\* C24: the apply button shows only when the page has seen no apply
\* succeed since the check that showed it was started.
C24_ApplyOfferIsFresh ==
    ui.applyShown => ~appliedSince

\* C26: a probe is scheduled first by the handling of a successful reboot
\* response, with the first delay; each failed probe counts, schedules the
\* next one with the retry delay while fewer than maxReconnectAttempts have
\* failed, and otherwise shows the timeout message and schedules nothing; a
\* probe that succeeds reloads and schedules nothing; so the count never
\* passes maxReconnectAttempts and the timer is eventually off.
C26_ReconnectTerminates ==
    /\ [][ /\ reconnectAttempts' <= maxReconnectAttempts
           /\ (timer' # NoTimer) => reconnectAttempts' < maxReconnectAttempts
           /\ (timer = NoTimer /\ timer' # NoTimer)
                => /\ rebootPc = "ok"
                   /\ timer' = firstReconnectDelay
                   /\ reconnectAttempts' = 0
           /\ (timer # NoTimer /\ timer' # timer /\ timer' # NoTimer)
                => timer' = reconnectDelay
           /\ (reconnectAttempts' # reconnectAttempts
                 /\ reconnectAttempts' # 0)
                => /\ timer # NoTimer
                   /\ dev # "up"
                   /\ reconnectAttempts' = reconnectAttempts + 1
                   /\ timer' = IF reconnectAttempts' < maxReconnectAttempts
                               THEN reconnectDelay ELSE NoTimer
                   /\ (reconnectAttempts' = maxReconnectAttempts)
                        <=> (page' = "timeout")
           /\ (page = "rebooting" /\ page' = "system") => timer' = NoTimer
           /\ (page' = "timeout") => timer' = NoTimer ]_vars
    /\ (timer # NoTimer) ~> (timer = NoTimer)

\* the twentieth probe has failed and the timeout message shows
C26_Witness ==
    /\ page = "timeout"
    /\ reconnectAttempts = maxReconnectAttempts
    /\ timer = NoTimer
    /\ dev = "down"

\* C25: a run of startup.sh that got past cd and the virtualenv and has
\* ended has started the web interface, with or without the key and
\* libcamera; the printer service and main.py are started only with the key
\* in .env and libcamera importable, main.py only after the printer
\* service, and with both conditions a finished run has started both.
C25_WebInterfaceAlwaysStarts ==
    LET Started(prog) == \E i \in DOMAIN launched : launched[i] = prog
        Before(p, q) == \E i, j \in DOMAIN launched :
                           i < j /\ launched[i] = p /\ launched[j] = q
        full == GrepKey(stIn.env) /\ stIn.libcamera
    IN /\ (stIn.cdOk /\ stIn.venvOk /\ stPc \in {"done", "exit1"})
            => Started("web_interface")
       /\ (Started("cat_printer") \/ Started("main.py")) => full
       /\ Started("main.py") => Before("cat_printer", "main.py")
       /\ (stPc = "done" /\ full)
            => Started("cat_printer") /\ Started("main.py")

\* a run with the key but without libcamera has ended, the web interface
\* started and nothing after it
C25_Witness ==
    /\ stPc = "exit1"
    /\ GrepKey(stIn.env)
    /\ ~stIn.libcamera
    /\ launched = <<"connection_check", "web_interface">>

\* C22: whenever the list of saved networks is answered, the answer and the
\* rows the page shows after it are the same for every store that differs
\* from the profiles in secrets only.
C22_ListHidesSecrets ==
    [][ loads' < loads
          => \A st \in SecretVariants(profiles) :
                /\ ListNetworks(st) = ListNetworks(profiles)
                /\ savedRows' \in {savedRows,
                                   displaySavedNetworks(ListNetworks(st))} ]_vars

\* two profiles with different secrets are saved and listed on the page
C22_Witness ==
    /\ \E q, r \in profiles : q.name # r.name /\ q.secret # r.secret
    /\ savedRows = displaySavedNetworks(ListNetworks(profiles))
    /\ loads = 0

\* C27: a connect or forget request carries the SSID shown in the modal
\* being confirmed, and the notification of its success names the SSID the
\* request carried.
C27_NoticeNamesRequestedNetwork ==
    [][ \A b \in {"btn-modal-connect", "btn-confirm-forget"} :
          /\ Len(wreq'[b]) > Len(wreq[b])
               => /\ wmodal = ModalOf(b)
                  /\ wreq'[b][Len(wreq'[b])] = modalSsid[ModalOf(b)]
          /\ (Len(wreq'[b]) < Len(wreq[b])
              /\ notification'.text \in {"Connected to", "Removed"})
               => notification'.ssid = Oldest(b) ]_vars

\* C28: on each page a button is disabled exactly while a request of its
\* handler is in flight, and no button has two requests in flight: the
\* handler disables it before sending, and the step that settles the
\* request enables it again, whatever the outcome.
C28_ButtonDisabledWhileInFlight ==
    /\ \A b \in WifiButtons :
          /\ Len(wreq[b]) <= 1
          /\ Len(wreq[b]) = 1 <=> b \in wdisabled
    /\ checkPc # "idle" <=> "btn-check-updates" \in disabled
    /\ (applyPc["page"] # "idle" /\ ~applyOrphan)
          <=> "btn-confirm-update" \in disabled
    /\ rebootPc # "idle" <=> "btn-confirm-reboot" \in disabled

\* a second connect request is in flight, its button disabled, after the
\* first one succeeded and the button was enabled again
C28_Witness ==
    /\ page = "wifi"
    /\ profiles # {}
    /\ wdisabled = {"btn-modal-connect"}
    /\ Len(wreq["btn-modal-connect"]) = 1
====
